---------------------------- MODULE Spec2Model ----------------------------
(***************************************************************************)
(* Model of the Mail Room interaction shell (mailroom_peewee.py).          *)
(*                                                                         *)
(* A Python str is a sequence of one-character strings.  The program is    *)
(* single threaded and blocks only in input(); one step of the model is    *)
(* the code that runs from the return of one input() call up to the next   *)
(* input() call (or up to the end of main).  pc names the prompt at which  *)
(* the program is waiting.                                                 *)
(*                                                                         *)
(* The persistent store (database_ops) and the in-memory ledger            *)
(* (donor_dict.DonorDict) are collaborators whose code is not part of the  *)
(* shell; they are modelled from their documented contract.                *)
(***************************************************************************)
EXTENDS Integers, Sequences, FiniteSets, TLC

VARIABLES pc,          \* the prompt the program is blocked at, or "exit"
          donors,      \* store: the donor table, a sequence of name rows
          donations,   \* store: the donation table, rows [name, amount]
          donor,       \* local `donor` of prompt_for_donor / send_thank_you
          factor,      \* local `factor` of create_projection
          min_don,     \* local `min_don` of create_projection
          nameIn,      \* raw line that made prompt_for_donor return `donor`
                       \* (kept until the step after the amount prompt)
          lastPc,      \* the prompt answered by the last step
          lastIn,      \* the raw line typed at that prompt
          calls,       \* collaborator calls made by the last step, in order
          in_mem_db,   \* the DonorDict built by the last step, if any
          printed      \* the report or projection printed by the last step

vars == <<pc, donors, donations, donor, factor, min_don, nameIn,
          lastPc, lastIn, calls, in_mem_db, printed>>

-----------------------------------------------------------------------------
(* Bounds of the model *)

\* Most donation rows the store may hold.
MaxDonations == 3

-----------------------------------------------------------------------------
(* Characters and Python str methods *)

LowerChars == <<"a","b","c","d","e","f","g","h","i","j","k","l","m",
                "n","o","p","q","r","s","t","u","v","w","x","y","z">>
UpperChars == <<"A","B","C","D","E","F","G","H","I","J","K","L","M",
                "N","O","P","Q","R","S","T","U","V","W","X","Y","Z">>
DigitChars == <<"0","1","2","3","4","5","6","7","8","9">>

IndexOf(c, chars) ==
    IF \E i \in DOMAIN chars : chars[i] = c
    THEN CHOOSE i \in DOMAIN chars : chars[i] = c
    ELSE 0

IsSpace(c) == c \in {" ", "\t"}
IsDigit(c) == IndexOf(c, DigitChars) > 0
IsCased(c) == IndexOf(c, LowerChars) > 0 \/ IndexOf(c, UpperChars) > 0

LowerChar(c) ==
    IF IndexOf(c, UpperChars) > 0 THEN LowerChars[IndexOf(c, UpperChars)] ELSE c
UpperChar(c) ==
    IF IndexOf(c, LowerChars) > 0 THEN UpperChars[IndexOf(c, LowerChars)] ELSE c

\* str.lower()
Lower(s) == [i \in DOMAIN s |-> LowerChar(s[i])]

\* str.strip(): drop leading and trailing whitespace
RECURSIVE LStrip(_)
LStrip(s) == IF s # <<>> /\ IsSpace(Head(s)) THEN LStrip(Tail(s)) ELSE s
RECURSIVE RStrip(_)
RStrip(s) ==
    IF s # <<>> /\ IsSpace(s[Len(s)]) THEN RStrip(SubSeq(s, 1, Len(s) - 1)) ELSE s
Strip(s) == RStrip(LStrip(s))

\* str.startswith(p)
StartsWith(s, p) == Len(s) >= Len(p) /\ SubSeq(s, 1, Len(p)) = p

\* str.title(): a cased character is upper-cased when the character before
\* it is not cased, lower-cased otherwise; other characters are kept.
Title(s) ==
    [i \in DOMAIN s |->
        IF i > 1 /\ IsCased(s[i - 1]) THEN LowerChar(s[i]) ELSE UpperChar(s[i])]

\* str.split(): the maximal runs of non-whitespace characters, in order
RECURSIVE SplitFrom(_, _, _)
SplitFrom(s, word, acc) ==
    IF s = <<>>
    THEN IF word = <<>> THEN acc ELSE Append(acc, word)
    ELSE IF IsSpace(Head(s))
         THEN SplitFrom(Tail(s), <<>>, IF word = <<>> THEN acc ELSE Append(acc, word))
         ELSE SplitFrom(Tail(s), Append(word, Head(s)), acc)
Split(s) == SplitFrom(s, <<>>, <<>>)

\* " ".join(words)
RECURSIVE Join(_)
Join(words) ==
    IF words = <<>> THEN <<>>
    ELSE IF Len(words) = 1 THEN words[1]
    ELSE words[1] \o <<" ">> \o Join(Tail(words))

-----------------------------------------------------------------------------
(* Python values: float | None, str | None *)

\* None where a float is expected
NoneVal == [t |-> "none", m |-> 0, e |-> 0]
NaN     == [t |-> "nan", m |-> 0, e |-> 0]
Inf     == [t |-> "inf", m |-> 1, e |-> 0]
NegInf  == [t |-> "inf", m |-> -1, e |-> 0]

\* The finite float m * 10^e, kept exact and normalised (10 does not divide
\* m, and zero is 0 * 10^0).
RECURSIVE Num(_, _)
Num(m, e) ==
    IF m = 0 THEN [t |-> "num", m |-> 0, e |-> 0]
    ELSE IF m % 10 = 0 THEN Num(m \div 10, e + 1)
    ELSE [t |-> "num", m |-> m, e |-> e]

\* bool(v) of a float or None: None and 0.0 are falsy, nan and inf are truthy
Truthy(v) == ~(v.t = "none" \/ (v.t = "num" /\ v.m = 0))

\* None where a str is expected, and a str value
NoneStr == [isNone |-> TRUE, s |-> <<>>]
Str(s)  == [isNone |-> FALSE, s |-> s]

\* bool(d) of a str or None: None and "" are falsy
TruthyStr(d) == ~d.isNone /\ d.s # <<>>

-----------------------------------------------------------------------------
(* float(str) and int(str) *)

\* A run of decimal digits in which single underscores may separate digits.
IsDigitPart(s) ==
    /\ s # <<>>
    /\ \A i \in DOMAIN s :
          \/ IsDigit(s[i])
          \/ /\ s[i] = "_"
             /\ 1 < i /\ i < Len(s)
             /\ IsDigit(s[i - 1]) /\ IsDigit(s[i + 1])

\* The digits of a digit part, as a natural number.
RECURSIVE NatOf(_, _)
NatOf(s, acc) ==
    IF s = <<>> THEN acc
    ELSE IF IsDigit(Head(s))
         THEN NatOf(Tail(s), 10 * acc + (IndexOf(Head(s), DigitChars) - 1))
         ELSE NatOf(Tail(s), acc)

NumDigits(s) == Len(SelectSeq(s, IsDigit))

\* Position of the first occurrence of character c in s, 0 when absent.
FirstPos(s, c) ==
    IF \E i \in DOMAIN s : s[i] = c
    THEN CHOOSE i \in DOMAIN s : s[i] = c /\ \A j \in 1..(i - 1) : s[j] # c
    ELSE 0

HasSign(s)  == s # <<>> /\ s[1] \in {"+", "-"}
SignOf(s)   == IF s # <<>> /\ s[1] = "-" THEN -1 ELSE 1
Unsigned(s) == IF HasSign(s) THEN Tail(s) ELSE s

\* The text before / after position p of s (all of s / nothing when p = 0).
Before(s, p) == IF p = 0 THEN s ELSE SubSeq(s, 1, p - 1)
After(s, p)  == IF p = 0 THEN <<>> ELSE SubSeq(s, p + 1, Len(s))

\* float(s) for a stripped, lower-cased s: [ok |-> FALSE] stands for
\* ValueError.  Accepted: [sign] (inf | infinity | nan | decimal), where
\* decimal is digits[.digits][e[sign]digits] or .digits[e[sign]digits].
\* The value is exact: binary rounding, overflow to inf and underflow to
\* 0.0 are outside the inputs of the model.
FloatOf(s) ==
    LET body  == Unsigned(s)
        sgn   == SignOf(s)
        ePos  == FirstPos(body, "e")
        mant  == Before(body, ePos)
        expo  == After(body, ePos)
        dPos  == FirstPos(mant, ".")
        ip    == Before(mant, dPos)
        fp    == After(mant, dPos)
        expOk == \/ ePos = 0
                 \/ IsDigitPart(Unsigned(expo))
        manOk == /\ ip = <<>> \/ IsDigitPart(ip)
                 /\ fp = <<>> \/ IsDigitPart(fp)
                 /\ ip # <<>> \/ fp # <<>>
        expV  == IF ePos = 0 THEN 0 ELSE SignOf(expo) * NatOf(Unsigned(expo), 0)
    IN  IF body \in {<<"i","n","f">>, <<"i","n","f","i","n","i","t","y">>}
        THEN [ok |-> TRUE, val |-> IF sgn = 1 THEN Inf ELSE NegInf]
        ELSE IF body = <<"n","a","n">>
        THEN [ok |-> TRUE, val |-> NaN]
        ELSE IF manOk /\ expOk
        THEN [ok  |-> TRUE,
              val |-> Num(sgn * NatOf(ip \o fp, 0), expV - NumDigits(fp))]
        ELSE [ok |-> FALSE, val |-> NoneVal]

\* int(s): surrounding whitespace is ignored; [sign] digits.
\* [ok |-> FALSE] stands for ValueError.
IntOf(s) ==
    LET t == Strip(s)
    IN  IF IsDigitPart(Unsigned(t))
        THEN [ok |-> TRUE, val |-> SignOf(t) * NatOf(Unsigned(t), 0)]
        ELSE [ok |-> FALSE, val |-> 0]

-----------------------------------------------------------------------------
(* The persistent store and the ledger (collaborators of the shell) *)

Range(f) == {f[i] : i \in DOMAIN f}

\* do.add_donor(name, db): idempotent create of a donor row.
add_donor(name, ds) == IF name \in Range(ds) THEN ds ELSE Append(ds, name)

\* do.add_donation(name, amount, db): append a donation row for the donor.
add_donation(name, amount, dn) == Append(dn, [name |-> name, amount |-> amount])

\* do.get_donor_names(db): the names of the donor rows.
get_donor_names(ds) == ds

\* The donation amounts recorded for `name`, in the order recorded.
RECURSIVE History(_, _)
History(name, dn) ==
    IF dn = <<>> THEN <<>>
    ELSE IF Head(dn).name = name
         THEN <<Head(dn).amount>> \o History(name, Tail(dn))
         ELSE History(name, Tail(dn))

\* DonorDict.from_db(db): every donor name with its donation sequence.
from_db(ds, dn) == [n \in Range(ds) |-> History(n, dn)]

\* The value of `in_mem_db`: no DonorDict was built, or the one built.
NoLedger     == [built |-> FALSE, data |-> <<>>]
Ledger(data) == [built |-> TRUE, data |-> data]

-----------------------------------------------------------------------------
(* float arithmetic and str comparison *)

RECURSIVE Pow10(_)
Pow10(n) == IF n = 0 THEN 1 ELSE 10 * Pow10(n - 1)

\* The mantissa of the finite float a written with exponent e <= a.e.
Mantissa(a, e) == a.m * Pow10(a.e - e)
MinExp(a, b)   == IF a.e < b.e THEN a.e ELSE b.e

\* a + b, a * b and a < b on float values.  Finite values are exact (the
\* amounts of the model are binary fractions, which float adds, multiplies
\* and compares without rounding); nan and inf follow IEEE 754.
FloatAdd(a, b) ==
    IF a.t = "nan" \/ b.t = "nan" THEN NaN
    ELSE IF a.t = "inf" /\ b.t = "inf" THEN IF a.m = b.m THEN a ELSE NaN
    ELSE IF a.t = "inf" THEN a
    ELSE IF b.t = "inf" THEN b
    ELSE Num(Mantissa(a, MinExp(a, b)) + Mantissa(b, MinExp(a, b)), MinExp(a, b))

FloatMul(a, b) ==
    IF a.t = "nan" \/ b.t = "nan" THEN NaN
    ELSE IF a.t = "inf" \/ b.t = "inf"
    THEN IF a.m = 0 \/ b.m = 0 THEN NaN
         ELSE IF (a.m > 0) = (b.m > 0) THEN Inf ELSE NegInf
    ELSE Num(a.m * b.m, a.e + b.e)

FloatLess(a, b) ==
    IF a.t = "nan" \/ b.t = "nan" THEN FALSE
    ELSE IF a.t = "inf" THEN a.m < 0 /\ b # NegInf
    ELSE IF b.t = "inf" THEN b.m > 0
    ELSE Mantissa(a, MinExp(a, b)) < Mantissa(b, MinExp(a, b))

\* The characters of the model in code point order.
CodePoints ==
    <<"\t", " ", "$", "'", "+", ",", "-", ".">> \o DigitChars \o UpperChars
        \o <<"_">> \o LowerChars

\* a < b for str values: the first differing character decides, a proper
\* prefix is smaller.
RECURSIVE StrLess(_, _)
StrLess(a, b) ==
    IF b = <<>> THEN FALSE
    ELSE IF a = <<>> THEN TRUE
    ELSE IF Head(a) = Head(b) THEN StrLess(Tail(a), Tail(b))
    ELSE IndexOf(Head(a), CodePoints) < IndexOf(Head(b), CodePoints)

-----------------------------------------------------------------------------
(* The ledger's derived outputs (DonorDict) *)

\* total(donor): the sum of a donation sequence, 0 for the empty sequence.
RECURSIVE total(_)
total(h) == IF h = <<>> THEN Num(0, 0) ELSE FloatAdd(Head(h), total(Tail(h)))

\* The sum of the totals of the donors in S, given every donor's total.
RECURSIVE SumTotals(_, _)
SumTotals(S, totals) ==
    IF S = {} THEN Num(0, 0)
    ELSE LET n == CHOOSE n \in S : TRUE
         IN  FloatAdd(totals[n], SumTotals(S \ {n}, totals))

\* A donor total is within the bounds of a projection.  A bound is set when
\* it is neither absent nor zero; both bounds are inclusive.
InBounds(t, mn, mx) ==
    /\ ~(Truthy(mn) /\ FloatLess(t, mn))
    /\ ~(Truthy(mx) /\ FloatLess(mx, t))

\* DonorDict.projection(factor, min_don, max_don): the factor applied to the
\* sum of the totals within the bounds, plus the sum of the other totals.
projection(data, f, mn, mx) ==
    LET totals == [n \in DOMAIN data |-> total(data[n])]
        scaled == {n \in DOMAIN data : InBounds(totals[n], mn, mx)}
    IN  FloatAdd(FloatMul(f, SumTotals(scaled, totals)),
                 SumTotals(DOMAIN data \ scaled, totals))

\* A row of the report: donor name, total given, number of gifts.  (The
\* average gift is the quotient of the last two and is not kept.)
ReportRow(n, data) == [name |-> n, total |-> total(data[n]), count |-> Len(data[n])]

\* Row r comes before row q: greater total first, equal totals by name.
RowBefore(r, q) ==
    \/ FloatLess(q.total, r.total)
    \/ r.total = q.total /\ StrLess(r.name, q.name)

\* The rows R in the order of the report.
RECURSIVE SortRows(_)
SortRows(R) ==
    IF R = {} THEN <<>>
    ELSE LET r == CHOOSE r \in R : \A q \in R \ {r} : RowBefore(r, q)
         IN  <<r>> \o SortRows(R \ {r})

\* DonorDict.create_report(): one row per donor of the ledger, sorted.
ReportRows(data) == SortRows({ReportRow(n, data) : n \in DOMAIN data})

\* What a step prints of the store or the ledger: nothing, the donor names,
\* a report, or a projection.
Output(kind, rows, value) == [kind |-> kind, rows |-> rows, value |-> value]
NoOutput == Output("none", <<>>, NoneVal)

-----------------------------------------------------------------------------
(* The calls of the shell *)

\* The calls the shell makes, as logged in `calls`.
AddDonorCall(name)            == [op |-> "add_donor", name |-> name]
AddDonationCall(name, amount) == [op |-> "add_donation", name |-> name, amount |-> amount]
GetDonorNamesCall             == [op |-> "get_donor_names"]
FromDbCall                    == [op |-> "from_db"]
CreateReportCall              == [op |-> "create_report"]
SendLettersCall               == [op |-> "send_letters"]
ProjectionCall(f, mn, mx)     ==
    [op |-> "projection", factor |-> f, min_don |-> mn, max_don |-> mx]

\* The store, the ledger built and the output printed, after one call.
ApplyCall(st, c) ==
    IF c.op = "add_donor"
    THEN [st EXCEPT !.donors = add_donor(c.name, st.donors)]
    ELSE IF c.op = "add_donation"
    THEN [st EXCEPT !.donations = add_donation(c.name, c.amount, st.donations)]
    ELSE IF c.op = "from_db"
    THEN [st EXCEPT !.ledger = Ledger(from_db(st.donors, st.donations))]
    ELSE IF c.op = "get_donor_names"
    THEN [st EXCEPT !.printed =
              LET names == get_donor_names(st.donors)
              IN  Output("names", [i \in DOMAIN names |-> Title(names[i])], NoneVal)]
    ELSE IF c.op = "create_report"
    THEN [st EXCEPT !.printed =
              Output("report", ReportRows(st.ledger.data), NoneVal)]
    ELSE IF c.op = "projection"
    THEN [st EXCEPT !.printed =
              Output("projection", <<>>,
                     projection(st.ledger.data, c.factor, c.min_don, c.max_don))]
    ELSE st

\* The store, the ledger and the output after a sequence of calls, made
\* in order.
RECURSIVE ApplyCalls(_, _)
ApplyCalls(st, cs) ==
    IF cs = <<>> THEN st ELSE ApplyCalls(ApplyCall(st, Head(cs)), Tail(cs))

-----------------------------------------------------------------------------
(* The shell: prompts *)

PROMPT_OPTS == <<1, 2, 3, 4, 5>>

QuitPrefix == <<"q">>
ListWord   == <<"l","i","s","t">>

\* Variant of get_usr_input: any integer typed is returned, in range or not.
get_usr_input_unchecked(line) ==
    LET r == IntOf(line)
    IN  IF r.ok THEN r.val ELSE 0

\* One pass of the loop of get_usr_input on the typed line: the choice
\* returned, or 0 when the loop prompts again (ValueError or out of range).
get_usr_input(line) ==
    LET r == IntOf(line)
    IN  IF r.ok /\ r.val \in Range(PROMPT_OPTS) THEN r.val ELSE 0

\* usr_in = input(prompt).strip().lower()
UsrIn(line) == Lower(Strip(line))

\* Variant of DonorName: usr_in.title(), the words neither split nor joined.
DonorName_unsplit(usr_in) == Title(usr_in)

\* " ".join([name.title() for name in usr_in.split()])
DonorName(usr_in) ==
    LET words == Split(usr_in)
    IN  Join([i \in DOMAIN words |-> Title(words[i])])

\* Variant of prompt_for_donor: no test for a leading 'q'.
prompt_for_donor_noquit(line, d) ==
    LET usr_in == UsrIn(line)
    IN  IF usr_in = ListWord
        THEN [donor |-> d, listed |-> TRUE, returns |-> TruthyStr(d)]
        ELSE LET nd == Str(DonorName(usr_in))
             IN  [donor |-> nd, listed |-> FALSE, returns |-> TruthyStr(nd)]

\* Variant of prompt_for_donor: no test for 'list', which is taken as a name.
prompt_for_donor_nolist(line, d) ==
    LET usr_in == UsrIn(line)
    IN  IF StartsWith(usr_in, QuitPrefix)
        THEN [donor |-> d, listed |-> FALSE, returns |-> TRUE]
        ELSE LET nd == Str(DonorName(usr_in))
             IN  [donor |-> nd, listed |-> FALSE, returns |-> TruthyStr(nd)]

\* One pass of the loop of prompt_for_donor, entered with local `donor` = d,
\* on the typed line: the new value of `donor`, whether the names were
\* listed, and whether the function returns (break, or `donor` is truthy).
prompt_for_donor(line, d) ==
    LET usr_in == UsrIn(line)
    IN  IF StartsWith(usr_in, QuitPrefix)
        THEN [donor |-> d, listed |-> FALSE, returns |-> TRUE]
        ELSE IF usr_in = ListWord
        THEN [donor |-> d, listed |-> TRUE, returns |-> TruthyStr(d)]
        ELSE LET nd == Str(DonorName(usr_in))
             IN  [donor |-> nd, listed |-> FALSE, returns |-> TruthyStr(nd)]

\* `not val and val != 0.0`: the loop of prompt_for_float goes on
FloatLoopCond(v) == ~Truthy(v) /\ ~(v.t = "num" /\ v.m = 0)

\* Variant of prompt_for_float: the loop is `while not val`, so 0.0 typed
\* prompts again.
prompt_for_float_truthy(line, v) ==
    LET usr_in == UsrIn(line)
        r      == FloatOf(usr_in)
    IN  IF StartsWith(usr_in, QuitPrefix)
        THEN [val |-> v, returns |-> TRUE]
        ELSE IF r.ok
        THEN [val |-> r.val, returns |-> Truthy(r.val)]
        ELSE [val |-> v, returns |-> Truthy(v)]

\* Variant of prompt_for_float: a ValueError of float() ends the loop.
prompt_for_float_break(line, v) ==
    LET usr_in == UsrIn(line)
        r      == FloatOf(usr_in)
    IN  IF StartsWith(usr_in, QuitPrefix)
        THEN [val |-> v, returns |-> TRUE]
        ELSE IF r.ok
        THEN [val |-> r.val, returns |-> ~FloatLoopCond(r.val)]
        ELSE [val |-> v, returns |-> TRUE]

\* One pass of the loop of prompt_for_float, entered with local `val` = v,
\* on the typed line: the new `val` and whether the function returns.
\* A ValueError of float() is caught: `val` is kept and the loop goes on.
prompt_for_float(line, v) ==
    LET usr_in == UsrIn(line)
        r      == FloatOf(usr_in)
    IN  IF StartsWith(usr_in, QuitPrefix)
        THEN [val |-> v, returns |-> TRUE]
        ELSE IF r.ok
        THEN [val |-> r.val, returns |-> ~FloatLoopCond(r.val)]
        ELSE [val |-> v, returns |-> ~FloatLoopCond(v)]

-----------------------------------------------------------------------------
(* The lines a user types, per prompt *)

MenuInputs ==
    { <<"1">>, <<"2">>, <<"3">>, <<"4">>, <<"5">>,
      <<" ","2"," ">>, <<"0">>, <<"6">>, <<"2",".","0">>, <<"x">>, <<>> }

JaneLower  == <<"j","a","n","e"," ","d","o","e">>
JaneSpaced == <<"J","a","n","e"," "," "," ","D","o","e">>
JaneUpper  == <<" ","J","A","N","E","\t","d","o","e"," ">>
ONeilLower == <<"o","'","n","e","i","l">>
ONeilUpper == <<"O","'","N","E","I","L">>
Quincy     == <<"Q","u","i","n","c","y">>
QuitLine   == <<"q","u","i","t">>
QuitUpper  == <<" ","Q","U","I","T">>
QFive      == <<"q","5">>

NameInputs ==
    { JaneLower, JaneSpaced, JaneUpper, ONeilLower, ONeilUpper, Quincy,
      QuitLine, QuitUpper, ListWord, <<" ","L","i","s","t"," ">>,
      <<>>, <<" "," ">> }

AmountInputs ==
    { <<"2",".","5">>, <<" ","2",".","5","0"," ">>, <<"1","0">>, <<"-","5">>,
      <<"0">>, <<"0",".","0">>, <<"a","b","c">>, <<"$","5">>, <<>>,
      QuitLine, QuitUpper, QFive }

FactorInputs ==
    { <<"2">>, <<"-","2">>, <<"0">>, <<"t","w","o">>, QuitLine }

BoundInputs ==
    { <<"0">>, <<"1","0","0">>, <<"1","E","2">>, <<"1",",","0","0","0">>, QuitLine, QFive }

\* The keys the store may already hold when the program starts.
Bob == <<"B","o","b">>

InitStores ==
    { [donors |-> <<>>, donations |-> <<>>],
      [donors |-> <<Bob>>, donations |-> <<[name |-> Bob, amount |-> Num(25, -1)]>>] }

-----------------------------------------------------------------------------
(* The shell: handlers *)

\* Where a handler is after the code that follows one input() call: the
\* prompt it blocks at next ("menu" when it has returned to the loop of
\* main, "exit" when main has ended), its locals, and the calls it made.
Out(p, d, f, mn, cs) ==
    [pc |-> p, donor |-> d, factor |-> f, min_don |-> mn, calls |-> cs]

Returned(cs) == Out("menu", NoneStr, NoneVal, NoneVal, cs)

\* Variant of send_thank_you_donor: the donor is added as soon as it is named.
send_thank_you_donor_eager(line, d) ==
    LET r == prompt_for_donor(line, d)
        cs == IF r.listed THEN <<GetDonorNamesCall>> ELSE <<>>
    IN  IF ~r.returns THEN Out("ty_name", r.donor, NoneVal, NoneVal, cs)
        ELSE IF ~TruthyStr(r.donor) THEN Returned(cs)
        ELSE Out("ty_amount", r.donor, NoneVal, NoneVal,
                 cs \o <<AddDonorCall(r.donor.s)>>)

\* send_thank_you, the name prompt: prompt_for_donor, then `if not donor`.
send_thank_you_donor(line, d) ==
    LET r == prompt_for_donor(line, d)
        cs == IF r.listed THEN <<GetDonorNamesCall>> ELSE <<>>
    IN  IF ~r.returns THEN Out("ty_name", r.donor, NoneVal, NoneVal, cs)
        ELSE IF ~TruthyStr(r.donor) THEN Returned(cs)
        ELSE Out("ty_amount", r.donor, NoneVal, NoneVal, cs)

\* Variant of send_thank_you_donation: add_donation before add_donor.
send_thank_you_donation_swapped(line, d) ==
    LET r == prompt_for_float(line, NoneVal)
    IN  IF ~r.returns THEN Out("ty_amount", d, NoneVal, NoneVal, <<>>)
        ELSE IF ~Truthy(r.val) THEN Returned(<<>>)
        ELSE Returned(<<AddDonationCall(d.s, r.val), AddDonorCall(d.s)>>)

\* Variant of send_thank_you_donation: add_donor is left out.
send_thank_you_donation_only(line, d) ==
    LET r == prompt_for_float(line, NoneVal)
    IN  IF ~r.returns THEN Out("ty_amount", d, NoneVal, NoneVal, <<>>)
        ELSE IF ~Truthy(r.val) THEN Returned(<<>>)
        ELSE Returned(<<AddDonationCall(d.s, r.val)>>)

\* send_thank_you, the amount prompt: prompt_for_float, `if not donation`,
\* then add_donor, add_donation and the thank-you text.
send_thank_you_donation(line, d) ==
    LET r == prompt_for_float(line, NoneVal)
    IN  IF ~r.returns THEN Out("ty_amount", d, NoneVal, NoneVal, <<>>)
        ELSE IF ~Truthy(r.val) THEN Returned(<<>>)
        ELSE Returned(<<AddDonorCall(d.s), AddDonationCall(d.s, r.val)>>)

\* Variant of create_report: the report of a ledger that is not rebuilt.
create_report_stale == Returned(<<CreateReportCall>>)

\* Variant of create_report: the ledger's letters are sent, no report made.
create_report_letters == Returned(<<FromDbCall, SendLettersCall>>)

\* create_report: build the ledger from the store, print its report.
create_report == Returned(<<FromDbCall, CreateReportCall>>)

\* send_letters: build the ledger from the store, write its letters.
send_letters == Returned(<<FromDbCall, SendLettersCall>>)

\* create_projection, the factor prompt: prompt_for_float, `if not factor`.
create_projection_factor(line) ==
    LET r == prompt_for_float(line, NoneVal)
    IN  IF ~r.returns THEN Out("pj_factor", NoneStr, NoneVal, NoneVal, <<>>)
        ELSE IF ~Truthy(r.val) THEN Returned(<<>>)
        ELSE Out("pj_min", NoneStr, r.val, NoneVal, <<>>)

\* Variant of create_projection_min: `if not min_don: return`, as for the
\* factor.
create_projection_min_guarded(line, f) ==
    LET r == prompt_for_float(line, NoneVal)
    IN  IF ~r.returns THEN Out("pj_min", NoneStr, f, NoneVal, <<>>)
        ELSE IF ~Truthy(r.val) THEN Returned(<<>>)
        ELSE Out("pj_max", NoneStr, f, r.val, <<>>)

\* create_projection, the minimum prompt.
create_projection_min(line, f) ==
    LET r == prompt_for_float(line, NoneVal)
    IN  IF ~r.returns THEN Out("pj_min", NoneStr, f, NoneVal, <<>>)
        ELSE Out("pj_max", NoneStr, f, r.val, <<>>)

\* Variant of create_projection_max: the two bounds are passed swapped.
create_projection_max_swapped(line, f, mn) ==
    LET r == prompt_for_float(line, NoneVal)
    IN  IF ~r.returns THEN Out("pj_max", NoneStr, f, mn, <<>>)
        ELSE Returned(<<FromDbCall, ProjectionCall(f, r.val, mn)>>)

\* create_projection, the maximum prompt: then the ledger is built from the
\* store and its projection is computed and printed.
create_projection_max(line, f, mn) ==
    LET r == prompt_for_float(line, NoneVal)
    IN  IF ~r.returns THEN Out("pj_max", NoneStr, f, mn, <<>>)
        ELSE Returned(<<FromDbCall, ProjectionCall(f, mn, r.val)>>)

\* Variant of quit_mailroom followed by the loop test: the loop goes on.
quit_mailroom_loops == Returned(<<>>)

\* quit_mailroom prints; main's loop then ends (choice = PROMPT_OPTS[-1]).
quit_mailroom == Out("exit", NoneStr, NoneVal, NoneVal, <<>>)

\* opt_dict = dict(zip(PROMPT_OPTS, handlers)), and opt_dict.get(choice)(db)
\* run up to the handler's first input() call or its return.  For a key
\* that is not in the dict, get() gives None and calling it raises
\* TypeError, which nothing catches ("crash").
opt_dict(choice) ==
    IF choice = PROMPT_OPTS[1] THEN Out("ty_name", NoneStr, NoneVal, NoneVal, <<>>)
    ELSE IF choice = PROMPT_OPTS[2] THEN create_report
    ELSE IF choice = PROMPT_OPTS[3] THEN send_letters
    ELSE IF choice = PROMPT_OPTS[4] THEN Out("pj_factor", NoneStr, NoneVal, NoneVal, <<>>)
    ELSE IF choice = PROMPT_OPTS[5] THEN quit_mailroom
    ELSE Out("crash", NoneStr, NoneVal, NoneVal, <<>>)

\* main: one line typed at the menu.
main(line) ==
    LET choice == get_usr_input(line)
    IN  IF choice = 0 THEN Returned(<<>>) ELSE opt_dict(choice)

-----------------------------------------------------------------------------
(* The state machine *)

Init ==
    /\ pc = "menu"
    /\ \E st \in InitStores : donors = st.donors /\ donations = st.donations
    /\ donor = NoneStr
    /\ factor = NoneVal
    /\ min_don = NoneVal
    /\ nameIn = <<>>
    /\ lastPc = "start"
    /\ lastIn = <<>>
    /\ calls = <<>>
    /\ in_mem_db = NoLedger
    /\ printed = NoOutput

\* The line typed at `prompt` is consumed and the handler runs to outcome o:
\* its calls are applied to the store in order.
Step(prompt, line, o) ==
    LET st == ApplyCalls([donors |-> donors, donations |-> donations,
                          ledger |-> NoLedger, printed |-> NoOutput], o.calls)
    IN  /\ pc = prompt
        /\ Len(st.donations) <= MaxDonations
        /\ pc' = o.pc
        /\ donor' = o.donor
        /\ factor' = o.factor
        /\ min_don' = o.min_don
        /\ nameIn' = IF prompt = "ty_amount" THEN nameIn
                     ELSE IF o.pc = "ty_amount" THEN line ELSE <<>>
        /\ lastPc' = prompt
        /\ lastIn' = line
        /\ calls' = o.calls
        /\ donors' = st.donors
        /\ donations' = st.donations
        /\ in_mem_db' = st.ledger
        /\ printed' = st.printed

\* The menu of main, by what the typed line selects.
MainReprompt ==
    \E line \in MenuInputs :
        get_usr_input(line) \notin Range(PROMPT_OPTS) /\ Step("menu", line, main(line))
MainSendThankYou ==
    \E line \in MenuInputs :
        get_usr_input(line) = 1 /\ Step("menu", line, main(line))
MainCreateReport ==
    \E line \in MenuInputs :
        get_usr_input(line) = 2 /\ Step("menu", line, main(line))
MainSendLetters ==
    \E line \in MenuInputs :
        get_usr_input(line) = 3 /\ Step("menu", line, main(line))
MainCreateProjection ==
    \E line \in MenuInputs :
        get_usr_input(line) = 4 /\ Step("menu", line, main(line))
MainQuit ==
    \E line \in MenuInputs :
        get_usr_input(line) = 5 /\ Step("menu", line, main(line))

\* The prompts of send_thank_you.
ThankYouDonor ==
    \E line \in NameInputs : Step("ty_name", line, send_thank_you_donor(line, donor))
ThankYouDonation ==
    \E line \in AmountInputs :
        Step("ty_amount", line, send_thank_you_donation(line, donor))

\* The prompts of create_projection.
ProjectionFactor ==
    \E line \in FactorInputs : Step("pj_factor", line, create_projection_factor(line))
ProjectionMin ==
    \E line \in BoundInputs : Step("pj_min", line, create_projection_min(line, factor))
ProjectionMax ==
    \E line \in BoundInputs :
        Step("pj_max", line, create_projection_max(line, factor, min_don))

Next ==
    \/ MainReprompt
    \/ MainSendThankYou
    \/ MainCreateReport
    \/ MainSendLetters
    \/ MainCreateProjection
    \/ MainQuit
    \/ ThankYouDonor
    \/ ThankYouDonation
    \/ ProjectionFactor
    \/ ProjectionMin
    \/ ProjectionMax

Spec == Init /\ [][Next]_vars

-----------------------------------------------------------------------------
(* The report and projection commands on the stores of two donors *)

Alice == <<"A","l","i","c","e">>

\* The donation rows a store may hold when the program starts.
LedgerRows ==
    { [name |-> n, amount |-> a] : n \in {Alice, Bob}, a \in {Num(50, 0), Num(100, 0)} }

\* The donor table of a store whose donations were recorded in the order dn.
RECURSIVE DonorsOf(_)
DonorsOf(dn) ==
    IF dn = <<>> THEN <<>>
    ELSE add_donor(dn[Len(dn)].name, DonorsOf(SubSeq(dn, 1, Len(dn) - 1)))

LedgerStores ==
    UNION { [1..k -> LedgerRows] : k \in 0..MaxDonations }

LedgerFactorInputs ==
    { <<"1">>, <<"1",".","0">>, <<"2">>, <<"0",".","5">>, <<"x">>, QuitLine }

LedgerMinInputs == { <<"0">>, <<"1","0","0">>, <<"1","0","0",".","0","1">>, QuitLine }

LedgerMaxInputs == { <<"0">>, <<"9","9">>, <<"1","0","0">>, <<>>, QuitLine }

InitLedger ==
    /\ pc = "menu"
    /\ \E dn \in LedgerStores : donors = DonorsOf(dn) /\ donations = dn
    /\ donor = NoneStr
    /\ factor = NoneVal
    /\ min_don = NoneVal
    /\ nameIn = <<>>
    /\ lastPc = "start"
    /\ lastIn = <<>>
    /\ calls = <<>>
    /\ in_mem_db = NoLedger
    /\ printed = NoOutput

LedgerFactor ==
    \E line \in LedgerFactorInputs :
        Step("pj_factor", line, create_projection_factor(line))
LedgerMin ==
    \E line \in LedgerMinInputs :
        Step("pj_min", line, create_projection_min(line, factor))
LedgerMax ==
    \E line \in LedgerMaxInputs :
        Step("pj_max", line, create_projection_max(line, factor, min_don))

NextLedger ==
    \/ MainReprompt
    \/ MainCreateReport
    \/ MainSendLetters
    \/ MainCreateProjection
    \/ MainQuit
    \/ LedgerFactor
    \/ LedgerMin
    \/ LedgerMax

SpecLedger == InitLedger /\ [][NextLedger]_vars

-----------------------------------------------------------------------------
(* Vocabulary of the properties *)

\* The keys expected for the names typed in NameInputs, written out.
JaneKey  == <<"J","a","n","e"," ","D","o","e">>
ONeilKey == <<"O","'","N","e","i","l">>

\* v > 0 for a float v (false for nan and for None).
Positive(v) == v.t \in {"num", "inf"} /\ v.m > 0

\* The last step ended a thank-you flow by recording a donation.
ThankYouCompleted == lastPc = "ty_amount" /\ calls # <<>>

\* The number of donor rows that hold `name`.
DonorRows(name, ds) == Cardinality({i \in DOMAIN ds : ds[i] = name})

\* Two typed lines differ at most in letter case and in the amount of
\* whitespace between and around their words (compared character by
\* character, without splitting either line).
RECURSIVE SameWordsFrom(_, _)
SameWordsFrom(a, b) ==
    IF a = <<>> \/ b = <<>> THEN LStrip(a) = <<>> /\ LStrip(b) = <<>>
    ELSE IF IsSpace(a[1]) /\ IsSpace(b[1]) THEN SameWordsFrom(LStrip(a), LStrip(b))
    ELSE IF IsSpace(a[1]) \/ IsSpace(b[1]) THEN FALSE
    ELSE LowerChar(a[1]) = LowerChar(b[1]) /\ SameWordsFrom(Tail(a), Tail(b))
SameWords(a, b) == SameWordsFrom(LStrip(a), LStrip(b))

\* A key is normalised: words of non-whitespace characters separated by
\* single spaces, no upper-case letter after a letter, no lower-case letter
\* at the start of a word or after a non-letter.
IsNormalised(k) ==
    /\ k # <<>>
    /\ ~IsSpace(k[1]) /\ ~IsSpace(k[Len(k)])
    /\ \A i \in DOMAIN k :
          /\ k[i] # "\t"
          /\ (i > 1 /\ k[i] = " ") => k[i - 1] # " "
          /\ (i > 1 /\ IsCased(k[i - 1])) => k[i] = LowerChar(k[i])
          /\ (i = 1 \/ ~IsCased(k[i - 1])) => k[i] = UpperChar(k[i])

-----------------------------------------------------------------------------
(* C1 *)

\* C1: whenever send_thank_you calls add_donation(name, amount), it has
\* called add_donor(name) for the same name earlier in the same flow; and
\* every donation row of the store is for a name that has a donor row.
C1_DonationAfterDonor ==
    /\ \A i \in DOMAIN calls :
          calls[i].op = "add_donation" =>
              \E j \in 1..(i - 1) :
                  calls[j].op = "add_donor" /\ calls[j].name = calls[i].name
    /\ \A i \in DOMAIN donations : donations[i].name \in Range(donors)

\* A flow has just recorded the first donation of a donor it created.
C1_Witness ==
    /\ ThankYouCompleted
    /\ calls = <<AddDonorCall(ONeilKey), AddDonationCall(ONeilKey, Num(-5, 0))>>
    /\ Len(History(ONeilKey, donations)) = 1
    /\ ONeilKey \in Range(donors)

-----------------------------------------------------------------------------
(* C2 *)

\* C2: when prompt_for_donor has returned a donor for the typed line, every
\* line of NameInputs that differs from it only in letter case or in
\* whitespace gives the same key, and the key is normalised; the donor table
\* never holds two rows for one name; and when the flow completes, the
\* donation is recorded under that one key, whichever spelling was typed.
C2_OneEntryPerName ==
    /\ \A i, j \in DOMAIN donors : donors[i] = donors[j] => i = j
    /\ pc = "ty_amount" =>
          /\ IsNormalised(donor.s)
          /\ \A r \in NameInputs :
                SameWords(nameIn, r) => send_thank_you_donor(r, NoneStr).donor = donor
    /\ ThankYouCompleted =>
          \A r \in NameInputs :
              SameWords(nameIn, r) =>
                  LET k == send_thank_you_donor(r, NoneStr).donor.s
                  IN  /\ DonorRows(k, donors) = 1
                      /\ donations[Len(donations)].name = k

\* A second donation has been recorded for Jane Doe, typed in upper case
\* with a tab between the words, and she has one donor row.
C2_Witness ==
    /\ ThankYouCompleted
    /\ nameIn = JaneUpper
    /\ Len(History(JaneKey, donations)) = 2
    /\ DonorRows(JaneKey, donors) = 1

-----------------------------------------------------------------------------
(* C3 *)

\* C3: a number <= 0 typed at the factor prompt of create_projection is
\* rejected (the handler returns to the menu), and DonorDict.projection is
\* never called with a factor that is not positive.
C3_FactorPositive ==
    /\ (/\ lastPc = "pj_factor"
        /\ FloatOf(UsrIn(lastIn)).ok
        /\ ~Positive(FloatOf(UsrIn(lastIn)).val)) => pc = "menu"
    /\ \A i \in DOMAIN calls :
          calls[i].op = "projection" => Positive(calls[i].factor)

-----------------------------------------------------------------------------
(* C4 *)

\* C4: every amount send_thank_you passes to add_donation is positive, and
\* every amount in the donation table is > 0.
C4_AmountsPositive ==
    /\ \A i \in DOMAIN calls :
          calls[i].op = "add_donation" => Positive(calls[i].amount)
    /\ \A i \in DOMAIN donations : Positive(donations[i].amount)

-----------------------------------------------------------------------------
(* C5 *)

\* C5: a non-empty line typed at the name prompt, other than the commands
\* 'list' and 'quit', selects the donor of that name (the flow goes on to
\* the amount prompt); and once a positive amount has been typed, the store
\* holds a donor row for the normalised name with that amount as the last
\* entry of its history.
C5_TypedNameIsUsed ==
    /\ (/\ lastPc = "ty_name"
        /\ Strip(lastIn) # <<>>
        /\ Lower(Strip(lastIn)) \notin {ListWord, QuitLine})
           => pc = "ty_amount" /\ TruthyStr(donor)
    /\ (/\ lastPc = "ty_amount"
        /\ FloatOf(UsrIn(lastIn)).ok
        /\ Positive(FloatOf(UsrIn(lastIn)).val))
           => LET k == DonorName(UsrIn(nameIn))
                  h == History(k, donations)
              IN  /\ k \in Range(donors)
                  /\ h # <<>>
                  /\ h[Len(h)] = FloatOf(UsrIn(lastIn)).val

-----------------------------------------------------------------------------
(* C6 *)

\* The typed line is the command "quit".
IsQuitLine(line) == Lower(Strip(line)) = QuitLine

\* The step makes no call that writes the store and leaves both tables as
\* they are.
StoreUntouched ==
    /\ donors' = donors
    /\ donations' = donations
    /\ \A i \in DOMAIN calls' : calls'[i].op \notin {"add_donor", "add_donation"}

\* C6: "quit" typed at the name prompt or at the amount prompt of
\* send_thank_you returns to the menu without any call and with the store
\* unchanged; and no step of the flow that comes before the amount is
\* accepted touches the store, so a donor named before the quit is not
\* created.
C6_QuitLeavesStore ==
    [][ /\ (lastPc' \in {"ty_name", "ty_amount"} /\ IsQuitLine(lastIn'))
              => pc' = "menu" /\ calls' = <<>> /\ StoreUntouched
        /\ (lastPc' = "ty_name" \/ (lastPc' = "ty_amount" /\ pc' = "ty_amount"))
              => StoreUntouched ]_vars

\* "quit" was typed at the amount prompt after the new name o'neil: the
\* program is back at the menu and the store has no such donor.
C6_Witness ==
    /\ lastPc = "ty_amount"
    /\ IsQuitLine(lastIn)
    /\ nameIn = ONeilLower
    /\ pc = "menu"
    /\ ONeilKey \notin Range(donors)
    /\ History(ONeilKey, donations) = <<>>

-----------------------------------------------------------------------------
(* C7 *)

\* The choice typed at the menu by the last step (0: none).
LastChoice == IF lastPc = "menu" THEN get_usr_input(lastIn) ELSE 0

\* The last step ran the computation of report, letters or projection.
Computed ==
    \/ LastChoice \in {2, 3}
    \/ lastPc = "pj_max" /\ pc = "menu"

\* C7: the step that computes a report, the letters or a projection first
\* builds the ledger from the store as it is then: the ledger holds every
\* donor row and, for each donor, its donations in the order recorded.  No
\* other step builds a ledger; in create_projection it is built by the step
\* that answers the max prompt, not while factor and min are prompted for.
C7_FreshLedger ==
    /\ Computed =>
          /\ calls # <<>> /\ calls[1] = FromDbCall
          /\ in_mem_db.built
          /\ DOMAIN in_mem_db.data = Range(donors)
          /\ \A n \in Range(donors) :
                in_mem_db.data[n] =
                    LET rows == SelectSeq(donations, LAMBDA r : r.name = n)
                    IN  [i \in DOMAIN rows |-> rows[i].amount]
    /\ ~Computed =>
          /\ ~in_mem_db.built
          /\ \A i \in DOMAIN calls : calls[i] # FromDbCall

\* A projection was computed after thank-you flows of this session: its
\* ledger holds the donor O'Neil, created by a flow, with two donations.
C7_Witness ==
    /\ lastPc = "pj_max" /\ pc = "menu"
    /\ in_mem_db.built
    /\ ONeilKey \in DOMAIN in_mem_db.data
    /\ Len(in_mem_db.data[ONeilKey]) = 2

-----------------------------------------------------------------------------
(* C8 *)

\* C8: a step changes the donor table or the donation table only when it
\* is the step of send_thank_you that accepts the amount, and then by
\* exactly add_donor(name) followed by add_donation(name, amount); the
\* steps of the menu (report, letters, quit) and of create_projection make
\* no writing call.
C8_OnlyThankYouWrites ==
    [][ /\ (donors' # donors \/ donations' # donations) =>
              /\ lastPc' = "ty_amount"
              /\ Len(calls') = 2
              /\ calls'[1].op = "add_donor"
              /\ calls'[2].op = "add_donation"
              /\ calls'[1].name = calls'[2].name
        /\ lastPc' \in {"menu", "pj_factor", "pj_min", "pj_max"} => StoreUntouched
      ]_vars

\* The letters were sent for a store that thank-you flows have filled.
C8_Witness ==
    /\ LastChoice = 3
    /\ calls = <<FromDbCall, SendLettersCall>>
    /\ Len(donations) >= 2
    /\ donations[Len(donations)].name = JaneKey

-----------------------------------------------------------------------------
(* C9 *)

NumericPrompts == {"ty_amount", "pj_factor", "pj_min", "pj_max"}

\* float() raises ValueError on the typed line, stripped and lower-cased.
NonNumeric(line) == ~FloatOf(UsrIn(line)).ok

\* The step shows the same prompt again: the handler is where it was, with
\* its locals and the store as they were, and it made no call.
PromptedAgain ==
    /\ pc = lastPc'
    /\ pc' = pc
    /\ calls' = <<>>
    /\ UNCHANGED <<donors, donations, donor, factor, min_don>>

\* C9 as stated: every non-numeric line typed at a numeric prompt, other
\* than the command "quit", makes the same prompt appear again, and no call
\* (add_donor, add_donation, projection) is made.
C9_AnyMalformedReprompts ==
    [][ (lastPc' \in NumericPrompts /\ NonNumeric(lastIn') /\ ~IsQuitLine(lastIn'))
            => PromptedAgain ]_vars

\* C9, amended: every non-numeric line typed at a numeric prompt whose
\* stripped, lower-cased text does not start with 'q' makes the same prompt
\* appear again, with the handler's locals and the store as they were, and
\* no call (add_donor, add_donation, projection or other) is made.
C9_MalformedReprompts ==
    [][ (/\ lastPc' \in NumericPrompts
         /\ NonNumeric(lastIn')
         /\ ~StartsWith(UsrIn(lastIn'), QuitPrefix)) => PromptedAgain ]_vars

\* "1,000" was typed at the min prompt: the program is still there, with
\* the factor entered before.
C9_Witness ==
    /\ lastPc = "pj_min"
    /\ lastIn = <<"1",",","0","0","0">>
    /\ pc = "pj_min"
    /\ factor = Num(2, 0)
    /\ calls = <<>>

-----------------------------------------------------------------------------
(* C10 *)

\* C10: the step that completes a thank-you flow (name line nameIn, then an
\* accepted amount) appends one donation row [key of nameIn, amount typed]:
\* the history of that key grows by that amount at its end, every other
\* history is unchanged, and the donor table gains at most that key.  A
\* positive amount is always accepted.
C10_AppendsOne ==
    [][ LET k == DonorName(UsrIn(nameIn))
            a == FloatOf(UsrIn(lastIn')).val
        IN  /\ (lastPc' = "ty_amount" /\ calls' # <<>>) =>
                  /\ donor = Str(k)
                  /\ FloatOf(UsrIn(lastIn')).ok
                  /\ donations' = Append(donations, [name |-> k, amount |-> a])
                  /\ History(k, donations') = Append(History(k, donations), a)
                  /\ \A n \in (Range(donors') \cup Range(donors)) \ {k} :
                        History(n, donations') = History(n, donations)
                  /\ donors' = IF k \in Range(donors) THEN donors ELSE Append(donors, k)
            /\ (lastPc' = "ty_amount" /\ FloatOf(UsrIn(lastIn')).ok /\ Positive(a))
                  => calls' # <<>> ]_vars

\* A second donation, 10, was recorded for Jane Doe after her 2.5, while
\* Bob's history is as it was when the program started.
C10_Witness ==
    /\ ThankYouCompleted
    /\ lastIn = <<"1","0">>
    /\ History(JaneKey, donations) = <<Num(25, -1), Num(1, 1)>>
    /\ History(Bob, donations) = <<Num(25, -1)>>

-----------------------------------------------------------------------------
(* C11 *)

\* The sum of the amounts of the donation rows dn of the donors in S.
RECURSIVE AmountsOf(_, _)
AmountsOf(S, dn) ==
    IF dn = <<>> THEN Num(0, 0)
    ELSE FloatAdd(IF Head(dn).name \in S THEN Head(dn).amount ELSE Num(0, 0),
                  AmountsOf(S, Tail(dn)))

\* A bound that is absent (the prompt was quit) or was entered as 0.
Unbounded(b) == b = NoneVal \/ b = Num(0, 0)

\* The donors a projection with bounds mn, mx leaves unscaled, an absent or
\* zero bound excluding nobody, read off the donation table.
LeftUnscaled(mn, mx) ==
    { n \in Range(donors) :
        \/ ~Unbounded(mn) /\ FloatLess(AmountsOf({n}, donations), mn)
        \/ ~Unbounded(mx) /\ FloatLess(mx, AmountsOf({n}, donations)) }

\* What the line typed at a bound prompt makes the bound: absent for a
\* line that starts with 'q', else the number typed.
BoundTyped(line) ==
    IF StartsWith(UsrIn(line), QuitPrefix) THEN NoneVal ELSE FloatOf(UsrIn(line)).val

\* A line that ends a bound prompt: quit, or a number.
EndsBoundPrompt(line) ==
    StartsWith(UsrIn(line), QuitPrefix) \/ FloatOf(UsrIn(line)).ok

\* C11: once a factor has been accepted, no answer to the min or the max
\* prompt returns to the menu without the projection: each line that is
\* quit or a number (0 included) moves on, the min prompt to the max prompt
\* with the factor kept, the max prompt to exactly one projection call with
\* the accepted factor and the two bounds as typed (absent for quit).  In
\* the value printed, a bound that is absent or 0 leaves no donor unscaled:
\* with both such, the value is the factor times the sum of all donations.
C11_ProjectionOnce ==
    [][ /\ lastPc' = "pj_min" =>
              /\ calls' = <<>>
              /\ factor' = factor
              /\ IF EndsBoundPrompt(lastIn')
                 THEN pc' = "pj_max" /\ min_don' = BoundTyped(lastIn')
                 ELSE pc' = "pj_min"
        /\ (lastPc' = "pj_max" /\ ~EndsBoundPrompt(lastIn')) =>
              /\ pc' = "pj_max" /\ calls' = <<>>
              /\ factor' = factor /\ min_don' = min_don
        /\ (lastPc' = "pj_max" /\ EndsBoundPrompt(lastIn')) =>
              LET mx  == calls'[2].max_don
                  out == LeftUnscaled(min_don, mx)
              IN  /\ pc' = "menu"
                  /\ calls' = <<FromDbCall,
                                ProjectionCall(factor, min_don, BoundTyped(lastIn'))>>
                  /\ printed'.kind = "projection"
                  /\ printed'.value =
                        FloatAdd(FloatMul(factor,
                                          AmountsOf(Range(donors) \ out, donations)),
                                 AmountsOf(out, donations))
                  /\ (Unbounded(min_don) /\ Unbounded(mx)) =>
                        printed'.value =
                            FloatMul(factor, AmountsOf(Range(donors), donations))
      ]_vars

\* The min prompt was quit and 0 was typed at the max prompt: the
\* projection of Alice [100], Bob [50, 50] with factor 0.5 was printed, 100.
C11_Witness ==
    /\ lastPc = "pj_max" /\ lastIn = <<"0">> /\ pc = "menu"
    /\ calls = <<FromDbCall, ProjectionCall(Num(5, -1), NoneVal, Num(0, 0))>>
    /\ from_db(donors, donations) =
          (Alice :> <<Num(100, 0)>>) @@ (Bob :> <<Num(50, 0), Num(50, 0)>>)
    /\ printed = Output("projection", <<>>, Num(100, 0))

-----------------------------------------------------------------------------
(* C12 *)

\* The ledger of the concrete scenario: Alice [100.0], Bob [50.0, 50.0].
ScenarioLedger ==
    (Alice :> <<Num(100, 0)>>) @@ (Bob :> <<Num(50, 0), Num(50, 0)>>)

\* C12: a projection computed with factor 1.0 and no bound set (each bound
\* absent or 0) prints the sum of all donations of the store; and for the
\* ledger Alice [100.0], Bob [50.0, 50.0] and factor 2.0 it prints 400.0
\* with no bound set, 400.0 with min = max = 100.0 (the bounds are
\* inclusive), and 200.0 with max = 99.0 typed at the max prompt.
C12_ProjectionValues ==
    (lastPc = "pj_max" /\ pc = "menu") =>
        LET c  == calls[2]
            mx == BoundTyped(lastIn)
        IN  /\ printed.kind = "projection"
            /\ (c.factor = Num(1, 0) /\ Unbounded(c.min_don) /\ Unbounded(mx)) =>
                  printed.value = AmountsOf(Range(donors), donations)
            /\ (in_mem_db.data = ScenarioLedger /\ c.factor = Num(2, 0)) =>
                  /\ (Unbounded(c.min_don) /\ Unbounded(mx)) =>
                        printed.value = Num(400, 0)
                  /\ (c.min_don = Num(100, 0) /\ mx = Num(100, 0)) =>
                        printed.value = Num(400, 0)
                  /\ mx = Num(99, 0) => printed.value = Num(200, 0)

\* Factor 2, min 100 and max 99 were typed for the scenario's ledger, built
\* from a store that recorded Bob's first donation before Alice's: 200.
C12_Witness ==
    /\ lastPc = "pj_max" /\ pc = "menu"
    /\ donors = <<Bob, Alice>>
    /\ in_mem_db.data = ScenarioLedger
    /\ calls[2] = ProjectionCall(Num(2, 0), Num(100, 0), Num(99, 0))
    /\ printed.value = Num(200, 0)

-----------------------------------------------------------------------------
(* C13 *)

\* The factors a computed projection is compared with.
OtherFactors == {Num(5, -1), Num(1, 0), Num(2, 0), Num(3, 0)}

\* a <= b for float values.
FloatLeq(a, b) == a = b \/ FloatLess(a, b)

\* C13: whenever a projection has been computed with a positive factor f,
\* the projection of the same ledger with the same bounds is no smaller for
\* every factor f2 >= f, and no greater for every positive factor f2 <= f.
C13_MonotoneInFactor ==
    (lastPc = "pj_max" /\ pc = "menu" /\ Positive(calls[2].factor)) =>
        LET c == calls[2]
        IN  \A f2 \in OtherFactors :
                LET other == projection(in_mem_db.data, f2, c.min_don, c.max_don)
                IN  /\ FloatLeq(c.factor, f2) => FloatLeq(printed.value, other)
                    /\ FloatLeq(f2, c.factor) => FloatLeq(other, printed.value)

-----------------------------------------------------------------------------
(* C14 *)

\* C14: the report command prints a report and returns to the menu; the
\* report has one row per donor row of the store and no other row, each with
\* the sum and the number of that donor's donations; of two rows the earlier
\* has the greater total or, the totals being equal, the smaller name; and
\* the report of a store without donors has no row.
C14_ReportSorted ==
    LastChoice = 2 =>
        LET rows == printed.rows
        IN  /\ pc = "menu"
            /\ printed.kind = "report"
            /\ Len(rows) = Len(donors)
            /\ \A n \in Range(donors) :
                  Cardinality({i \in DOMAIN rows : rows[i].name = n}) = 1
            /\ \A i \in DOMAIN rows :
                  /\ rows[i].name \in Range(donors)
                  /\ rows[i].total = AmountsOf({rows[i].name}, donations)
                  /\ rows[i].count =
                        Cardinality({k \in DOMAIN donations :
                                        donations[k].name = rows[i].name})
            /\ \A i, j \in DOMAIN rows :
                  i < j =>
                      \/ FloatLess(rows[j].total, rows[i].total)
                      \/ /\ rows[i].total = rows[j].total
                         /\ StrLess(rows[i].name, rows[j].name)
            /\ donors = <<>> => rows = <<>>

\* The report of a store filled by two thank-you flows, Jane Doe 10 and then
\* O'Neil 2.5, after Bob's 2.5: Jane Doe first, then Bob before O'Neil, whose
\* totals are equal.
C14_Witness ==
    /\ LastChoice = 2
    /\ donors = <<Bob, JaneKey, ONeilKey>>
    /\ printed.rows =
          << [name |-> JaneKey, total |-> Num(10, 0), count |-> 1],
             [name |-> Bob, total |-> Num(25, -1), count |-> 1],
             [name |-> ONeilKey, total |-> Num(25, -1), count |-> 1] >>

-----------------------------------------------------------------------------
(* C15 *)

\* C15: the call opt_dict.get(choice)(donor_db) never fails for want of a
\* handler; a step at the menu runs a handler only when the line typed is
\* an integer of PROMPT_OPTS, and then the handler of that number (1 the
\* thank-you, 2 the report, 3 the letters, 4 the projection, 5 quit); every
\* other line, not an integer or out of range, shows the menu again with
\* nothing called and nothing printed.
C15_DispatchTotal ==
    /\ pc # "crash"
    /\ lastPc = "menu" =>
          LET typed == Strip(lastIn)
              valid == IntOf(lastIn).ok /\ IntOf(lastIn).val \in {1, 2, 3, 4, 5}
          IN  /\ typed = <<"1">> => pc = "ty_name" /\ calls = <<>>
              /\ typed = <<"2">> =>
                    pc = "menu" /\ calls = <<FromDbCall, CreateReportCall>>
              /\ typed = <<"3">> =>
                    pc = "menu" /\ calls = <<FromDbCall, SendLettersCall>>
              /\ typed = <<"4">> => pc = "pj_factor" /\ calls = <<>>
              /\ typed = <<"5">> => pc = "exit" /\ calls = <<>>
              /\ (pc # "menu" \/ calls # <<>>) => valid
              /\ ~valid => pc = "menu" /\ calls = <<>> /\ printed = NoOutput

\* "6" was typed at the menu, the store holding a donation: the menu is
\* shown again.
C15_Witness ==
    /\ lastPc = "menu"
    /\ lastIn = <<"6">>
    /\ pc = "menu"
    /\ calls = <<>>
    /\ donations # <<>>

-----------------------------------------------------------------------------
(* C16 *)

\* No handler is in progress: its locals do not exist.
NoHandlerRunning == donor = NoneStr /\ factor = NoneVal /\ min_don = NoneVal

\* C16, every step: a line is read at the menu only while no handler is in
\* progress, and at a handler's prompt only by that handler; main ends in
\* the step in which 5 is chosen at the menu and in no other (after 1, 2, 3
\* and 4 and after every return of a handler the loop goes on), and that
\* step makes no call; after it there is no step at all.
C16_LoopSteps ==
    /\ pc # "exit"
    /\ pc = lastPc'
    /\ lastPc' = "menu" => NoHandlerRunning
    /\ pc' = "menu" => NoHandlerRunning'
    /\ pc' = "exit" <=> (lastPc' = "menu" /\ Strip(lastIn') = <<"5">>)
    /\ pc' = "exit" => calls' = <<>> /\ NoHandlerRunning'

HandlerPrompts == {"ty_name", "ty_amount", "pj_factor", "pj_min", "pj_max"}

\* The line "quit" ends the prompt the program is waiting at.
QuitEndsPrompt ==
    /\ pc = "ty_name" => send_thank_you_donor(QuitLine, donor).pc = "menu"
    /\ pc = "ty_amount" => send_thank_you_donation(QuitLine, donor).pc = "menu"
    /\ pc = "pj_factor" => create_projection_factor(QuitLine).pc = "menu"
    /\ pc = "pj_min" => create_projection_min(QuitLine, factor).pc = "pj_max"
    /\ pc = "pj_max" => create_projection_max(QuitLine, factor, min_don).pc = "menu"

\* The user ends every prompt of a handler sooner or later (with a valid
\* value or with quit): the program waits at none of them for ever.
UserEndsPrompts == \A p \in HandlerPrompts : []<>(pc # p)

\* The user, shown the menu again and again, selects 5 sooner or later.
UserSelectsQuit ==
    []<>(pc = "menu") => <>(lastPc = "menu" /\ Strip(lastIn) = <<"5">>)

\* C16: the steps of the main loop are as above; "quit" ends every prompt
\* of a handler; and in every run in which the user ends every prompt of a
\* handler and in the end selects 5, the program terminates.
C16_MainLoop ==
    /\ [][C16_LoopSteps]_vars
    /\ []QuitEndsPrompt
    /\ (UserEndsPrompts /\ UserSelectsQuit) => <>(pc = "exit")

\* The program has ended after a session in which a donation was recorded.
C16_Witness ==
    /\ pc = "exit"
    /\ lastPc = "menu"
    /\ lastIn = <<"5">>
    /\ Len(donations) = 2

-----------------------------------------------------------------------------
(* C17 *)

\* The line typed is a number equal to zero.
ZeroTyped(line) ==
    /\ ~StartsWith(UsrIn(line), QuitPrefix)
    /\ FloatOf(UsrIn(line)).ok
    /\ FloatOf(UsrIn(line)).val = Num(0, 0)

\* prompt_for_float on the line typed last: it returns None exactly for a
\* line that quits, returns the number typed for a number (0.0 included,
\* which ends the loop), and prompts again for any other line.
NoneIffQuit ==
    LET r == prompt_for_float(lastIn, NoneVal)
    IN  /\ (r.returns /\ r.val = NoneVal) <=> StartsWith(UsrIn(lastIn), QuitPrefix)
        /\ r.returns <=> EndsBoundPrompt(lastIn)
        /\ r.returns => r.val = BoundTyped(lastIn)
        /\ ZeroTyped(lastIn) => r.returns /\ r.val = Num(0, 0)

\* create_projection passes the bounds on as prompt_for_float returned
\* them: 0.0 for a 0 typed, None for quit.
BoundsPassedOn ==
    /\ (lastPc = "pj_min" /\ EndsBoundPrompt(lastIn)) =>
          pc = "pj_max" /\ min_don = BoundTyped(lastIn)
    /\ (lastPc = "pj_max" /\ EndsBoundPrompt(lastIn)) =>
          /\ Len(calls) = 2
          /\ calls[2].op = "projection"
          /\ calls[2].max_don = BoundTyped(lastIn)

\* The state is the one "quit" at the prompt answered last leads to, the
\* line typed apart.
HandledAsQuit ==
    /\ lastPc \in {"ty_amount", "pj_factor"} => pc = "menu" /\ calls = <<>>
    /\ lastPc = "pj_min" => pc = "pj_max" /\ min_don = NoneVal
    /\ lastPc = "pj_max" => Len(calls) = 2 /\ calls[2].max_don = NoneVal

\* C17 as stated: prompt_for_float returns None exactly when the user quit
\* and the number typed otherwise, 0.0 included; and at each of its four
\* prompts a 0 typed is not handled the way quit is.
C17_ZeroIsNotQuit ==
    lastPc \in NumericPrompts =>
        /\ NoneIffQuit
        /\ BoundsPassedOn
        /\ ZeroTyped(lastIn) => ~HandledAsQuit

\* C17, amended: prompt_for_float returns None exactly when the user quit
\* and the number typed otherwise, 0.0 included; create_projection passes
\* a bound of 0.0 and an absent bound on as such; but a 0 typed as the
\* donation amount or as the factor is handled the way quit is: the handler
\* returns to the menu and makes no call.
C17_ZeroBoundIsNotQuit ==
    lastPc \in NumericPrompts =>
        /\ NoneIffQuit
        /\ BoundsPassedOn
        /\ (ZeroTyped(lastIn) /\ lastPc \in {"pj_min", "pj_max"}) => ~HandledAsQuit
        /\ (ZeroTyped(lastIn) /\ lastPc \in {"ty_amount", "pj_factor"}) => HandledAsQuit

\* The min prompt was quit and 0 was typed at the max prompt: the projection
\* was called with min_don None and max_don 0.0.
C17_Witness ==
    /\ lastPc = "pj_max"
    /\ lastIn = <<"0">>
    /\ calls = <<FromDbCall, ProjectionCall(Num(2, 0), NoneVal, Num(0, 0))>>
    /\ Len(donations) >= 2

-----------------------------------------------------------------------------
(* C18 *)

\* C18: 'list' typed at the name prompt, in any letter case and with any
\* whitespace around it, prints the donor names of the store and shows the
\* name prompt again: no donor is selected, the only call is
\* get_donor_names and the store is as it was.  An empty or blank line
\* shows the name prompt again as well, with no donor selected, no call made
\* and the store as it was.
C18_ListReprompts ==
    [][ /\ (lastPc' = "ty_name" /\ Lower(Strip(lastIn')) = <<"l","i","s","t">>) =>
              /\ pc' = "ty_name"
              /\ donor' = donor /\ ~TruthyStr(donor')
              /\ calls' = <<GetDonorNamesCall>>
              /\ printed' = Output("names", donors, NoneVal)
              /\ donors' = donors /\ donations' = donations
        /\ (lastPc' = "ty_name" /\ Strip(lastIn') = <<>>) =>
              /\ pc' = "ty_name"
              /\ ~TruthyStr(donor')
              /\ calls' = <<>>
              /\ printed' = NoOutput
              /\ donors' = donors /\ donations' = donations
      ]_vars

\* " List " was typed at the name prompt after a thank-you flow for Jane
\* Doe: the names Bob and Jane Doe were printed and the prompt is shown
\* again.
C18_Witness ==
    /\ lastPc = "ty_name"
    /\ lastIn = <<" ","L","i","s","t"," ">>
    /\ pc = "ty_name"
    /\ donor = NoneStr
    /\ printed = Output("names", <<Bob, JaneKey>>, NoneVal)

=============================================================================
